---- MODULE Spec2Model ----
(***************************************************************************)
(* Model of src/main.py: the structured-generation service.                *)
(*                                                                         *)
(* Text is modelled as a sequence of lexical tokens.  The tokens "{", "}", *)
(* "[", "]" and "," are the single characters of that name; "K" stands for *)
(* a quoted object key followed by its colon ("a":); "x" stands for a      *)
(* prose character that is none of the above.  Indexes are 0-based as in   *)
(* Python, str.find/str.rfind answer -1 when the character is absent, and  *)
(* slicing follows Python's rules for negative and out-of-range bounds.    *)
(***************************************************************************)
EXTENDS Integers, Sequences, FiniteSets, TLC

\* ------------------------------------------------------------------ bounds
MaxLen == 4
MaxPad == 1
MaxDepth == 1
MaxItems == 2
NumReq == 2
MaxCourses == 3

\* ------------------------------------------------------------- text values
Alphabet == {"{", "}", "[", "]", ",", "K", "x"}

RECURSIVE SeqsUpTo(_, _)
SeqsUpTo(S, n) ==
    IF n = 0 THEN {<<>>}
    ELSE LET T == SeqsUpTo(S, n - 1)
         IN  T \cup {Append(q, e) : q \in {u \in T : Len(u) = n - 1}, e \in S}

Min2(a, b) == IF a <= b THEN a ELSE b
Max2(a, b) == IF a >= b THEN a ELSE b

\* str.find(ch): lowest 0-based index of ch in s, or -1
Find(s, ch) ==
    IF \E i \in 1..Len(s) : s[i] = ch
    THEN (CHOOSE i \in 1..Len(s) : s[i] = ch /\ \A j \in 1..(i - 1) : s[j] # ch) - 1
    ELSE -1

\* str.rfind(ch): highest 0-based index of ch in s, or -1
RFind(s, ch) ==
    IF \E i \in 1..Len(s) : s[i] = ch
    THEN (CHOOSE i \in 1..Len(s) : s[i] = ch /\ \A j \in (i + 1)..Len(s) : s[j] # ch) - 1
    ELSE -1

\* Python's normalisation of one slice bound
ClampIndex(i, n) ==
    LET j == IF i < 0 THEN i + n ELSE i
    IN  IF j < 0 THEN 0 ELSE IF j > n THEN n ELSE j

\* s[a:b]
Slice(s, a, b) ==
    LET lo == ClampIndex(a, Len(s))
        hi == ClampIndex(b, Len(s))
    IN  IF lo < hi THEN SubSeq(s, lo + 1, hi) ELSE <<>>

\* ------------------------------------------------------------- JSON values
\* A parsed value: a dict ("map"), a list, or a str.  The only key is the
\* one the token K stands for, so a dict has no entry or one entry (a
\* repeated key keeps the last value, as json.loads does).
Map(items) == [t |-> "map", items |-> items]
List(items) == [t |-> "list", items |-> items]
EmptyStr == [t |-> "str", items |-> <<>>]
NoVal == [t |-> "none", items |-> <<>>]

\* JSON documents: the empty dict and list, lists of up to MaxItems of
\* these, and dicts and one-element lists nested up to depth d
EmptyValues == {Map(<<>>), List(<<>>)}

RECURSIVE Values(_)
Values(d) ==
    IF d = 0 THEN EmptyValues
    ELSE LET S == Values(d - 1)
         IN  S \cup {Map(<<v>>) : v \in S} \cup {List(<<v>>) : v \in S}
               \cup {List(q) : q \in SeqsUpTo(EmptyValues, MaxItems)}

\* json.dumps without whitespace
RECURSIVE Dumps(_)
RECURSIVE DumpItems(_, _)
DumpItems(items, i) ==
    IF i > Len(items) THEN <<>>
    ELSE (IF i > 1 THEN <<",">> ELSE <<>>) \o Dumps(items[i]) \o DumpItems(items, i + 1)
Dumps(v) ==
    IF v.t = "map"
    THEN IF v.items = <<>> THEN <<"{", "}">> ELSE <<"{", "K">> \o Dumps(v.items[1]) \o <<"}">>
    ELSE <<"[">> \o DumpItems(v.items, 1) \o <<"]">>

\* json.loads: strict recursive-descent parse of the whole text
ParseFail == [ok |-> FALSE, val |-> NoVal, next |-> 0]
ParseOk(v, n) == [ok |-> TRUE, val |-> v, next |-> n]

RECURSIVE ParseValue(_, _)
RECURSIVE ParseElems(_, _, _)
RECURSIVE ParseMembers(_, _, _)

ParseElems(w, i, acc) ==
    LET r == ParseValue(w, i)
    IN  IF ~r.ok \/ r.next > Len(w) THEN ParseFail
        ELSE IF w[r.next] = "," THEN ParseElems(w, r.next + 1, Append(acc, r.val))
        ELSE IF w[r.next] = "]" THEN ParseOk(List(Append(acc, r.val)), r.next + 1)
        ELSE ParseFail

ParseMembers(w, i, acc) ==
    IF i > Len(w) \/ w[i] # "K" THEN ParseFail
    ELSE LET r == ParseValue(w, i + 1)
         IN  IF ~r.ok \/ r.next > Len(w) THEN ParseFail
             ELSE IF w[r.next] = "," THEN ParseMembers(w, r.next + 1, <<r.val>>)
             ELSE IF w[r.next] = "}" THEN ParseOk(Map(<<r.val>>), r.next + 1)
             ELSE ParseFail

ParseValue(w, i) ==
    IF i > Len(w) THEN ParseFail
    ELSE IF w[i] = "[" THEN
        IF i + 1 <= Len(w) /\ w[i + 1] = "]" THEN ParseOk(List(<<>>), i + 2)
        ELSE ParseElems(w, i + 1, <<>>)
    ELSE IF w[i] = "{" THEN
        IF i + 1 <= Len(w) /\ w[i + 1] = "}" THEN ParseOk(Map(<<>>), i + 2)
        ELSE ParseMembers(w, i + 1, <<>>)
    ELSE ParseFail

\* json.loads(w): a value, or JSONDecodeError (ok = FALSE), also on extra data
Loads(w) ==
    LET r == ParseValue(w, 1)
    IN  IF r.ok /\ r.next = Len(w) + 1 THEN r ELSE ParseFail

\* json_repair.loads(w) never raises.  A text with no "{" and no "[" holds
\* nothing it can recover and it answers the empty string; for any other
\* text the repaired value is whatever the library's heuristics produce:
\* a dict, a list (empty, or starting with a dict, a list or a string) or
\* a string.
RepairOutcomes(w) ==
    IF Find(w, "{") = -1 /\ Find(w, "[") = -1 THEN {EmptyStr}
    ELSE { EmptyStr, Map(<<>>), Map(<<List(<<>>)>>), List(<<>>),
           List(<<Map(<<>>), List(<<>>)>>), List(<<List(<<>>), Map(<<>>)>>),
           List(<<EmptyStr>>) }

\* ---------------------------------------------------------------- results
Return(v) == [ok |-> TRUE, val |-> v, exc |-> "", stage |-> ""]
Raise(exc, stage) == [ok |-> FALSE, val |-> NoVal, exc |-> exc, stage |-> stage]
NoResult == [ok |-> FALSE, val |-> NoVal, exc |-> "", stage |-> ""]

\* ------------------------------------------------------- the parser's run
\* A reply fragment: a str, or a dict that may or may not have a 'text' key
StrFrag(s) == [kind |-> "str", has_text |-> FALSE, text |-> s]
DictFrag(s) == [kind |-> "dict", has_text |-> TRUE, text |-> s]
DictNoText == [kind |-> "dict", has_text |-> FALSE, text |-> <<>>]

\* the loop that builds combined_reply
RECURSIVE Combine(_, _)
Combine(replies, i) ==
    IF i > Len(replies) THEN <<>>
    ELSE LET reply == replies[i]
             piece == IF reply.kind = "dict"
                      THEN (IF reply.has_text THEN reply.text ELSE <<>>)
                      ELSE reply.text
         IN  piece \o Combine(replies, i + 1)

FirstIndex(s) == Min2(Find(s, "{"), Find(s, "["))

LastIndex(s) == Max2(RFind(s, "}"), RFind(s, "]")) + 1

\* variant: the last element is taken instead of the first (quiz[-1])
Normalize_Last(parsed) ==
    IF parsed.t = "list"
    THEN IF parsed.items = <<>> THEN Raise("IndexError", "parser")
         ELSE Return(parsed.items[Len(parsed.items)])
    ELSE Return(parsed)

\* "if isinstance(quiz, list): quiz = quiz[0]" and the return
Normalize(parsed) ==
    IF parsed.t = "list"
    THEN IF parsed.items = <<>> THEN Raise("IndexError", "parser")
         ELSE Return(parsed.items[1])
    ELSE Return(parsed)

\* One run of a parser component on the generator's replies; repaired is
\* what json_repair.loads answers if it is called.
ParserRun(replies, repaired) ==
    LET combined_reply == Combine(replies, 1)
        first_index == FirstIndex(combined_reply)
        last_index == LastIndex(combined_reply)
        json_portion == Slice(combined_reply, first_index, last_index)
        strict == Loads(json_portion)
        parsed == IF strict.ok THEN strict.val ELSE repaired
    IN  [pc |-> "done", replies |-> replies, combined_reply |-> combined_reply,
         first_index |-> first_index, last_index |-> last_index,
         json_portion |-> json_portion, strict_ok |-> strict.ok,
         parsed |-> parsed, out |-> Normalize(parsed)]

ParserStart(replies) ==
    [pc |-> "start", replies |-> replies, combined_reply |-> <<>>,
     first_index |-> 0, last_index |-> 0, json_portion |-> <<>>,
     strict_ok |-> FALSE, parsed |-> NoVal, out |-> NoResult]

\* the window ParserRun will parse, for choosing json_repair's answer
Window(replies) ==
    LET s == Combine(replies, 1) IN Slice(s, FirstIndex(s), LastIndex(s))

\* ------------------------------------------------------ module-level state
\* The pipelines the module builds while it loads, in source order.  Each
\* assignment binds a module-level name; a later assignment to the same name
\* replaces the earlier object.
ModuleBindings ==
    << [name |-> "quiz_generation_pipeline",
        pipeline |-> [template |-> "roadmap_template",
                      parser |-> "quiz_parser", output |-> "quiz"]],
       [name |-> "course_recommendation_pipeline",
        pipeline |-> [template |-> "course_recommendation_template",
                      parser |-> "course_parser", output |-> "courses"]],
       [name |-> "project_recommendation_pipeline",
        pipeline |-> [template |-> "project_recommendation_template",
                      parser |-> "project_parser", output |-> "projects"]],
       [name |-> "quiz_generation_pipeline",
        pipeline |-> [template |-> "quiz_generation_template",
                      parser |-> "quiz_parser", output |-> "quizzes"]] >>

GlobalNames == {ModuleBindings[i].name : i \in 1..Len(ModuleBindings)}

\* the module namespace once the first n assignments have run
RECURSIVE LoadModule(_)
LoadModule(n) ==
    IF n = 0 THEN [g \in {} |-> NoVal]
    ELSE LET before == LoadModule(n - 1)
             b == ModuleBindings[n]
         IN  [g \in (DOMAIN before) \cup {b.name} |->
                 IF g = b.name THEN b.pipeline ELSE before[g]]

\* The HTTP routes and, for each, the function it calls: the module-level
\* pipeline that function runs and the keys it reads from the run's result.
JsonEndpoints == {"roadmap", "recommend-course", "recommend-projects", "quiz"}
Endpoints == JsonEndpoints \cup {"step-description"}

EntryPoint(e) ==
    CASE e = "roadmap" ->
           [fn |-> "generate_quiz", global |-> "quiz_generation_pipeline",
            parser |-> "quiz_parser", key |-> "quiz"]
      [] e = "recommend-course" ->
           [fn |-> "recommend_courses", global |-> "course_recommendation_pipeline",
            parser |-> "course_parser", key |-> "courses"]
      [] e = "recommend-projects" ->
           [fn |-> "recommend_projects", global |-> "project_recommendation_pipeline",
            parser |-> "project_parser", key |-> "projects"]
      [] e = "quiz" ->
           [fn |-> "generate_quizzes", global |-> "quiz_generation_pipeline",
            parser |-> "quiz_parser", key |-> "quizzes"]

\* step_description builds its chain inside the call; no module-level pipeline
StepChain == [template |-> "step_prompt", parser |-> "", output |-> ""]

\* --------------------------------------------------------- request inputs
Topics == {"Python", "Rust"}
\* the topic the caller in slot r asks about: every in-flight request has
\* its own
TopicOf(r) == <<"topic", r>>
Steps == {"Variables"}

Str(s) == [t |-> "str", items |-> s]

\* replies a generator may hand to the parser
ReplySamples ==
    { <<StrFrag(<<"x", "{", "K", "[", "]", "}", "x">>)>>,
      <<StrFrag(<<"[", "]", "{">>)>>,
      <<StrFrag(<<"{", "K", "{", "}">>), DictNoText, DictFrag(<<"}">>)>> }

\* message contents the chat model may answer with (the token "backtick"
\* stands for the backquote character)
StepContents ==
    { <<"x", "x">>, <<"#", "*", "x", "*", "backtick">> }

\* ------------------------------------------------------------------ state
VARIABLES
    globals,   \* module namespace: name -> pipeline object
    req,       \* in-flight requests: slot -> the call's local state
    parser,    \* locals of one parser run taken on its own
    urls       \* locals of one check_course_urls call

vars == <<globals, req, parser, urls>>

Requests == 1..NumReq

NoPipeline == [template |-> "", parser |-> "", output |-> ""]
NoPrompt == [template |-> "", topic |-> <<>>, step |-> ""]
NoRunResult == [component |-> "", key |-> "", val |-> NoVal]

IdleReq ==
    [pc |-> "idle", endpoint |-> "", topic |-> <<>>, step |-> "",
     pipeline |-> NoPipeline, prompt |-> NoPrompt,
     llm_calls |-> 0, llm_failed |-> FALSE, reply |-> <<>>,
     parser_runs |-> 0, repaired |-> NoVal,
     result |-> NoRunResult, response |-> NoResult]

\* PromptBuilder / ChatPromptTemplate: the template with its slots filled
Render(template, topic, step) == [template |-> template, topic |-> topic, step |-> step]

\* variant: the replies sit in one buffer shared by all calls, so a parser
\* may be handed the replies of another call in flight
ParserInput_Shared(r) ==
    LET others == {q \in Requests : q # r /\ req[q].reply # <<>>}
    IN  IF others = {} THEN req[r].reply ELSE req[CHOOSE q \in others : TRUE].reply

\* the replies the pipeline hands to the parser of request r
ParserInput(r) == req[r].reply

\* variant: the failed call is caught and the generator is tried again
AfterGeneratorError_Retry(rec) ==
    [rec EXCEPT !.pc = "generate", !.llm_failed = TRUE]

\* an exception raised by the generator leaves pipeline.run and the entry
\* function; nothing catches it
AfterGeneratorError(rec) ==
    [rec EXCEPT !.pc = "done", !.llm_failed = TRUE,
                !.response = Raise("OpenAIError", "generator")]

\* --------------------------------------------------------- service actions
\* A route handler is entered and calls its function, which fetches the
\* pipeline from the module namespace and renders the prompt.
Receive(r, e, topic, step) ==
    /\ req[r].pc = "idle"
    /\ LET pl == IF e \in JsonEndpoints THEN globals[EntryPoint(e).global] ELSE StepChain
           st == IF e \in JsonEndpoints THEN "" ELSE step
       IN  req' = [req EXCEPT ![r] =
                      [IdleReq EXCEPT !.pc = "generate", !.endpoint = e,
                                      !.topic = topic, !.step = st, !.pipeline = pl,
                                      !.prompt = Render(pl.template, topic, st)]]
    /\ UNCHANGED <<globals, parser, urls>>

\* The LLM answers.
GenerateOk(r) ==
    /\ req[r].pc = "generate"
    /\ \E reply \in IF req[r].endpoint \in JsonEndpoints
                    THEN ReplySamples
                    ELSE {<<StrFrag(c)>> : c \in StepContents} :
          req' = [req EXCEPT ![r].llm_calls = @ + 1,
                             ![r].reply = reply,
                             ![r].pc = IF req[r].endpoint \in JsonEndpoints
                                       THEN "parse" ELSE "answer"]
    /\ UNCHANGED <<globals, parser, urls>>

\* The LLM call raises.
GenerateFail(r) ==
    /\ req[r].pc = "generate"
    /\ req' = [req EXCEPT ![r] = AfterGeneratorError([req[r] EXCEPT !.llm_calls = @ + 1])]
    /\ UNCHANGED <<globals, parser, urls>>

\* The pipeline's parser component runs on the replies.
Parse(r) ==
    /\ req[r].pc = "parse"
    /\ \E rc \in RepairOutcomes(Window(ParserInput(r))) :
          LET pr == ParserRun(ParserInput(r), rc)
              rec == [req[r] EXCEPT !.parser_runs = @ + 1,
                                    !.repaired = IF pr.strict_ok THEN NoVal ELSE rc]
          IN  req' = [req EXCEPT ![r] =
                         IF pr.out.ok
                         THEN [rec EXCEPT !.pc = "answer",
                                          !.result = [component |-> rec.pipeline.parser,
                                                      key |-> rec.pipeline.output,
                                                      val |-> pr.out.val]]
                         ELSE [rec EXCEPT !.pc = "done", !.response = pr.out]]
    /\ UNCHANGED <<globals, parser, urls>>

\* answer = result[<parser>][<key>]; return answer   (JSON entry points)
\* description = response.content; return description   (step_description)
ReadAnswer(r) ==
    /\ req[r].pc = "answer"
    /\ LET rec == req[r]
           resp == IF rec.endpoint \in JsonEndpoints
                   THEN LET ep == EntryPoint(rec.endpoint)
                        IN  IF rec.result.component = ep.parser /\ rec.result.key = ep.key
                            THEN Return(rec.result.val)
                            ELSE Raise("KeyError", "entry")
                   ELSE Return(Str(rec.reply[1].text))
       IN  req' = [req EXCEPT ![r].pc = "done", ![r].response = resp]
    /\ UNCHANGED <<globals, parser, urls>>

\* The response (or the error) is sent and the call's objects are dropped.
Respond(r) ==
    /\ req[r].pc = "done"
    /\ req' = [req EXCEPT ![r] = IdleReq]
    /\ UNCHANGED <<globals, parser, urls>>

\* ------------------------------------------------------ check_course_urls
StatusCodes == {200, 204, 301, 404}

\* what requests.head does: raise a RequestException or answer a status
HeadOutcomes ==
    {[raised |-> TRUE, status_code |-> 0]}
        \cup {[raised |-> FALSE, status_code |-> c] : c \in StatusCodes}

UrlsStart(n, topic) ==
    [pc |-> "loop", topic |-> topic,
     courses |-> [k \in 1..n |-> [name |-> k, url |-> k]],
     i |-> 1, valid_courses |-> <<>>, visited |-> <<>>, heads |-> <<>>,
     validated |-> [topic |-> "", courses |-> <<>>]]

\* variant: "if response.ok", true of every status below 400
KeepCourse_Ok(o) == ~o.raised /\ o.status_code < 400

\* "if response.status_code == 200", reached only when head did not raise
KeepCourse(o) == ~o.raised /\ o.status_code = 200

\* one iteration of the for loop
CheckCourse ==
    /\ urls.pc = "loop"
    /\ urls.i <= Len(urls.courses)
    /\ \E o \in HeadOutcomes :
          urls' = [urls EXCEPT !.i = @ + 1,
                               !.visited = Append(@, urls.courses[urls.i].name),
                               !.heads = Append(@, o),
                               !.valid_courses =
                                   IF KeepCourse(o) THEN Append(@, urls.courses[urls.i])
                                   ELSE @]
    /\ UNCHANGED <<globals, req, parser>>

\* the loop is exhausted: return {"topic": ..., "courses": valid_courses}
ReturnValidated ==
    /\ urls.pc = "loop"
    /\ urls.i > Len(urls.courses)
    /\ urls' = [urls EXCEPT !.pc = "returned",
                            !.validated = [topic |-> urls.topic,
                                           courses |-> urls.valid_courses]]
    /\ UNCHANGED <<globals, req, parser>>

\* ------------------------------------------------------- one parser run
\* the ways a reply text arrives split into fragments
Shapes == {"str", "dict", "split"}

Fragments(s, shape) ==
    LET h == Len(s) \div 2
    IN  CASE shape = "str" -> <<StrFrag(s)>>
          [] shape = "dict" -> <<DictFrag(s)>>
          [] shape = "split" ->
               <<StrFrag(SubSeq(s, 1, h)), DictNoText, DictFrag(SubSeq(s, h + 1, Len(s)))>>

\* the reply is any text of up to MaxLen tokens
AnyText(shape) ==
    \E n \in 0..MaxLen : \E s \in [1..n -> Alphabet] :
        parser = ParserStart(Fragments(s, shape))

\* what surrounds a JSON document in a reply: prose and stray brackets
PadAlphabet == Alphabet \ {",", "K"}

\* the reply is a JSON document with up to MaxPad tokens before and after
EmbeddedText(shape) ==
    \E np \in 0..MaxPad, nq \in 0..MaxPad :
        \E p \in [1..np -> PadAlphabet], q \in [1..nq -> PadAlphabet], v \in Values(MaxDepth) :
            parser = ParserStart(Fragments(p \o Dumps(v) \o q, shape))

RunParser ==
    /\ parser.pc = "start"
    /\ \E rc \in RepairOutcomes(Window(parser.replies)) :
          parser' = ParserRun(parser.replies, rc)
    /\ UNCHANGED <<globals, req, urls>>

\* --------------------------------------------------------- specifications
Loaded == LoadModule(Len(ModuleBindings))

Init ==
    /\ globals = Loaded
    /\ req = [r \in Requests |-> IdleReq]
    /\ parser = ParserStart(<<>>)
    /\ urls = UrlsStart(0, "")

Next ==
    \E r \in Requests :
        \/ \E e \in Endpoints, step \in Steps : Receive(r, e, TopicOf(r), step)
        \/ GenerateOk(r)
        \/ GenerateFail(r)
        \/ Parse(r)
        \/ ReadAnswer(r)
        \/ Respond(r)

Spec == Init /\ [][Next]_vars

ExtractInit ==
    /\ globals = Loaded
    /\ req = [r \in Requests |-> IdleReq]
    /\ \E shape \in Shapes : AnyText(shape) \/ EmbeddedText(shape)
    /\ urls = UrlsStart(0, "")

ExtractNext == RunParser

SpecExtract == ExtractInit /\ [][ExtractNext]_vars

UrlsInit ==
    /\ globals = Loaded
    /\ req = [r \in Requests |-> IdleReq]
    /\ parser = ParserStart(<<>>)
    /\ urls \in {UrlsStart(n, t) : n \in 0..MaxCourses, t \in Topics}

UrlsNext == CheckCourse \/ ReturnValidated

SpecUrls == UrlsInit /\ [][UrlsNext]_vars

\* ================================================================= claims
\* ExtractionFailure is an error raised by the parser component;
\* GenerationUnavailable is an error raised by the generator.
IsExtractionFailure(o) == ~o.ok /\ o.exc # "" /\ o.stage = "parser"
IsGenerationUnavailable(o) == ~o.ok /\ o.exc # "" /\ o.stage = "generator"

\* the prompt template the route's use case is documented to use
OwnTemplate(e) ==
    CASE e = "roadmap" -> "roadmap_template"
      [] e = "recommend-course" -> "course_recommendation_template"
      [] e = "recommend-projects" -> "project_recommendation_template"
      [] e = "quiz" -> "quiz_generation_template"

Openers == {"{", "["}
Closers == {"}", "]"}
HasAny(s, chars) == \E i \in 1..Len(s) : s[i] \in chars
FirstOf(s, chars) ==
    (CHOOSE i \in 1..Len(s) : s[i] \in chars /\ \A j \in 1..(i - 1) : s[j] \notin chars) - 1
LastOf(s, chars) ==
    (CHOOSE i \in 1..Len(s) : s[i] \in chars /\ \A j \in (i + 1)..Len(s) : s[j] \notin chars) - 1

Prose == SeqsUpTo({"x"}, MaxPad)
Objects == {v \in Values(MaxDepth) : v.t = "map"}

\* C1: every JSON entry point renders its own use case's template and, when
\* its pipeline's parser produced a document, returns that document; it
\* never fails on a missing output key.
C1_EntryRunsOwnPipeline ==
    \A r \in Requests :
        (req[r].pc # "idle" /\ req[r].endpoint \in JsonEndpoints) =>
            /\ req[r].prompt.template = OwnTemplate(req[r].endpoint)
            /\ req[r].response.exc # "KeyError"
            /\ (req[r].pc = "done" /\ req[r].result # NoRunResult) =>
                   req[r].response = Return(req[r].result.val)

\* C2: when the concatenated reply has none of { } [ ], the parser run ends
\* in an ExtractionFailure and returns no value.
C2_NoBracketsFails ==
    (parser.pc = "done" /\ ~HasAny(Combine(parser.replies, 1), Openers \cup Closers)) =>
        IsExtractionFailure(parser.out)

\* C3: for a concatenated reply with an opener and a closer, the window
\* starts at the first { or [ (also when only one of the two occurs) and
\* ends one past the last } or ].
C3_WindowBounds ==
    LET s == Combine(parser.replies, 1)
    IN  (parser.pc = "done" /\ HasAny(s, Openers) /\ HasAny(s, Closers)) =>
            /\ parser.first_index = FirstOf(s, Openers)
            /\ parser.last_index = LastOf(s, Closers) + 1
            /\ parser.json_portion = SubSeq(s, FirstOf(s, Openers) + 1, LastOf(s, Closers) + 1)

\* C4: a well-formed JSON object between leading and trailing prose is
\* returned exactly, also when it contains no [ or ].
C4_EmbeddedObjectRecovered ==
    parser.pc = "done" =>
        \A v \in Objects : \A p \in Prose, q \in Prose :
            Combine(parser.replies, 1) = p \o Dumps(v) \o q => parser.out = Return(v)

\* C5: a parsed sequence yields its first element when non-empty and an
\* ExtractionFailure when empty; a parsed mapping is returned unchanged.
C5_SequenceNormalised ==
    parser.pc = "done" =>
        /\ parser.strict_ok => parser.parsed = Loads(parser.json_portion).val
        /\ (parser.parsed.t = "list" /\ Len(parser.parsed.items) > 0) =>
               parser.out = Return(parser.parsed.items[1])
        /\ (parser.parsed.t = "list" /\ Len(parser.parsed.items) = 0) =>
               IsExtractionFailure(parser.out)
        /\ parser.parsed.t = "map" => parser.out = Return(parser.parsed)

C5_Witness ==
    /\ parser.pc = "done"
    /\ parser.strict_ok
    /\ parser.parsed.t = "list"
    /\ Len(parser.parsed.items) >= 2
    /\ parser.parsed.items[1] # parser.parsed.items[Len(parser.parsed.items)]
    /\ parser.out = Return(parser.parsed.items[1])

\* C6: whatever a JSON use case returns to its caller is a mapping.
C6_ResponseIsMapping ==
    \A r \in Requests :
        (req[r].endpoint \in JsonEndpoints /\ req[r].pc = "done" /\ req[r].response.ok) =>
            req[r].response.val.t = "map"

\* what the call recorded in rec answers when it is the only call, given
\* the same LLM outcome and the same answer of json_repair
RunAlone(rec) ==
    IF rec.llm_failed THEN Raise("OpenAIError", "generator")
    ELSE IF rec.endpoint \notin JsonEndpoints THEN Return(Str(rec.reply[1].text))
    ELSE LET ep == EntryPoint(rec.endpoint)
             pl == Loaded[ep.global]
             pr == ParserRun(rec.reply, rec.repaired)
         IN  IF ~pr.out.ok THEN pr.out
             ELSE IF pl.parser = ep.parser /\ pl.output = ep.key THEN Return(pr.out.val)
             ELSE Raise("KeyError", "entry")

\* C7: concurrent requests do not interfere.  The module namespace stays as
\* loaded, every finished request has the response it would have alone, and
\* a step of one request changes no other request's state.
C7_NoInterference ==
    /\ [](globals = Loaded)
    /\ [](\A r \in Requests : req[r].pc = "done" => req[r].response = RunAlone(req[r]))
    /\ [][\A r, q \in Requests : (r # q /\ req'[r] # req[r]) => req'[q] = req[q]]_vars

C7_Witness ==
    \E r, q \in Requests :
        /\ r # q
        /\ req[r].pc = "done" /\ req[q].pc = "done"
        /\ req[r].parser_runs = 1 /\ req[q].parser_runs = 1
        /\ req[r].topic # req[q].topic
        /\ req[r].reply # req[q].reply
        /\ req[r].response.ok /\ req[q].response.ok
        /\ req[r].response # req[q].response

\* C8: a request invokes the LLM at most once.  When the call fails the
\* request is over with a GenerationUnavailable error, the parser has not
\* run, nothing was produced, and the error differs from ExtractionFailure.
C8_SingleInvocation ==
    \A r \in Requests :
        /\ req[r].llm_calls <= 1
        /\ req[r].llm_failed =>
               /\ req[r].pc = "done"
               /\ IsGenerationUnavailable(req[r].response)
               /\ ~IsExtractionFailure(req[r].response)
               /\ req[r].parser_runs = 0
               /\ req[r].result = NoRunResult
        /\ IsExtractionFailure(req[r].response) =>
               /\ ~req[r].llm_failed
               /\ req[r].llm_calls = 1
               /\ req[r].parser_runs = 1

C8_Witness ==
    \E r, q \in Requests :
        /\ req[r].llm_failed /\ req[r].llm_calls = 1 /\ req[r].pc = "done"
        /\ IsExtractionFailure(req[q].response) /\ req[q].pc = "done"

Markdown == {"#", "*", "backtick"}

\* C9: step-description never runs the parser and the string it returns
\* has no #, * or backquote.
C9_StepDescriptionPlain ==
    \A r \in Requests :
        req[r].endpoint = "step-description" =>
            /\ req[r].parser_runs = 0
            /\ (req[r].pc = "done" /\ req[r].response.ok) =>
                   ~HasAny(req[r].response.val.items, Markdown)

\* the courses whose head outcome is a status in codes, in input order
RECURSIVE Kept(_, _, _, _)
Kept(courses, heads, codes, i) ==
    IF i > Len(courses) THEN <<>>
    ELSE (IF ~heads[i].raised /\ heads[i].status_code \in codes
          THEN <<courses[i]>> ELSE <<>>) \o Kept(courses, heads, codes, i + 1)

VisitedAllInOrder ==
    /\ Len(urls.heads) = Len(urls.courses)
    /\ urls.visited = [k \in 1..Len(urls.courses) |-> urls.courses[k].name]

\* C10 as stated: every course is visited once, in order, whatever the
\* earlier outcomes, and the output keeps the topic and exactly the courses
\* whose HEAD answered a successful (2xx) status.
C10_KeepsSuccessful ==
    urls.pc = "returned" =>
        /\ VisitedAllInOrder
        /\ urls.validated.topic = urls.topic
        /\ urls.validated.courses = Kept(urls.courses, urls.heads, 200..299, 1)

\* C10 amended: as above, but the courses kept are exactly those whose HEAD
\* answered status 200.
C10_KeepsStatus200 ==
    urls.pc = "returned" =>
        /\ VisitedAllInOrder
        /\ urls.validated.topic = urls.topic
        /\ urls.validated.courses = Kept(urls.courses, urls.heads, {200}, 1)

C10_Witness ==
    /\ urls.pc = "returned"
    /\ \E i, j, k \in 1..Len(urls.heads) :
          /\ i < j /\ i < k
          /\ urls.heads[i].raised
          /\ ~urls.heads[j].raised /\ urls.heads[j].status_code = 200
          /\ ~urls.heads[k].raised /\ urls.heads[k].status_code = 204
    /\ Len(urls.validated.courses) >= 1

====
